---- MODULE Spec2Model ----
(***************************************************************************)
(* ACE, the Adaptive CSS Engine (src/ace-ai1.js): the interaction ranking  *)
(* kept during a page session, its fusion and differencing at unload, the  *)
(* persisted rank read back by adapt, and the restyling driven by it.      *)
(*                                                                         *)
(* JavaScript numbers are held in fixed point: a finite number is an       *)
(* integer count of 1/Scale units, beside the values NaN, +-Infinity and   *)
(* null.  CSS values are sequences of one-character strings.               *)
(***************************************************************************)
EXTENDS Integers, Sequences, FiniteSets, TLC

(***************************************************************************)
(* Bounds of the model.                                                    *)
(***************************************************************************)
Scale == 1000        \* fixed-point unit: a number v stands for v / Scale
MaxEvents == 3       \* user events dispatched, over all loads of the page
MaxLoads == 2        \* page loads under Spec
MaxSessions == 3     \* page loads under SpecSessions
MaxClicks == 5       \* clicks under SpecClicks
MaxCount == 3        \* largest evCount under SpecFuse
ChannelStep == 51    \* distance between the colour channels under SpecRestyle
LowChannel == 10     \* a colour channel of one hexadecimal digit
MaxMagnitude == 3    \* largest integer part of a dimension under SpecRestyle
MaxWrappers == 1     \* elements between body and the menu under SpecPaths
MaxBefore == 1       \* div siblings before the menu under SpecPaths
MaxLinks == 2        \* links in the menu under SpecPaths

(***************************************************************************)
(* JavaScript numbers.                                                     *)
(***************************************************************************)
Num(v) == [k |-> "num", v |-> v]
NaN == [k |-> "nan", v |-> 0]
Null == [k |-> "null", v |-> 0]
Inf(s) == [k |-> "inf", v |-> s]
FromInt(i) == Num(i * Scale)
Sign(v) == IF v < 0 THEN -1 ELSE IF v > 0 THEN 1 ELSE 0
Abs(v) == IF v < 0 THEN -v ELSE v

\* floor(a * b / c), computed without forming a * b when a is large.
MulDiv(a, b, c) ==
  LET sa == IF c < 0 THEN -a ELSE a
      sc == Abs(c)
  IN  (sa \div sc) * b + ((sa % sc) * b) \div sc

\* ToNumber: null converts to 0, every number to itself.
ToNumber(a) == IF a.k = "null" THEN Num(0) ELSE a

\* ToBoolean of a number or null: 0, NaN and null are falsy.
Truthy(a) == (a.k = "num" /\ a.v # 0) \/ a.k = "inf"

AddN(x, y) ==
  LET a == ToNumber(x)
      b == ToNumber(y)
  IN  IF a.k = "nan" \/ b.k = "nan" THEN NaN
      ELSE IF a.k = "inf" /\ b.k = "inf" THEN (IF a.v = b.v THEN a ELSE NaN)
      ELSE IF a.k = "inf" THEN a
      ELSE IF b.k = "inf" THEN b
      ELSE Num(a.v + b.v)

NegN(x) ==
  LET a == ToNumber(x)
  IN  IF a.k = "num" THEN Num(-a.v) ELSE IF a.k = "inf" THEN Inf(-a.v) ELSE NaN

SubN(x, y) == AddN(x, NegN(y))

MulN(x, y) ==
  LET a == ToNumber(x)
      b == ToNumber(y)
  IN  IF a.k = "nan" \/ b.k = "nan" THEN NaN
      ELSE IF a.k = "inf" \/ b.k = "inf"
           THEN (IF a.v = 0 \/ b.v = 0 THEN NaN ELSE Inf(Sign(a.v) * Sign(b.v)))
      ELSE Num(MulDiv(a.v, b.v, Scale))

DivN(x, y) ==
  LET a == ToNumber(x)
      b == ToNumber(y)
  IN  IF a.k = "nan" \/ b.k = "nan" THEN NaN
      ELSE IF a.k = "inf" THEN (IF b.k = "inf" THEN NaN
                                ELSE Inf(a.v * (IF b.v < 0 THEN -1 ELSE 1)))
      ELSE IF b.k = "inf" THEN Num(0)
      ELSE IF b.v = 0 THEN (IF a.v = 0 THEN NaN ELSE Inf(Sign(a.v)))
      ELSE Num(MulDiv(a.v, Scale, b.v))

\* a > b as JavaScript compares numbers: false when either side is NaN.
GtN(x, y) ==
  LET a == ToNumber(x)
      b == ToNumber(y)
  IN  IF a.k = "nan" \/ b.k = "nan" THEN FALSE
      ELSE IF a.k = "inf" THEN a.v = 1 /\ ~(b.k = "inf" /\ b.v = 1)
      ELSE IF b.k = "inf" THEN b.v = -1
      ELSE a.v > b.v

\* Math.exp on a finite fixed-point number: the power series, term by term,
\* until the terms vanish; a negative argument through 1 / exp(-x).
RECURSIVE ExpSeries(_, _, _, _)
ExpSeries(x, k, term, acc) ==
  IF term = 0 \/ k > 40 THEN acc
  ELSE ExpSeries(x, k + 1, MulDiv(term, x, k * Scale), acc + term)

MathExp(a) ==
  IF a.k = "nan" THEN NaN
  ELSE IF a.k = "inf" THEN (IF a.v = 1 THEN Inf(1) ELSE Num(0))
  ELSE IF ToNumber(a).v >= 0 THEN Num(ExpSeries(ToNumber(a).v, 1, Scale, 0))
  ELSE Num((Scale * Scale) \div ExpSeries(-ToNumber(a).v, 1, Scale, 0))

(***************************************************************************)
(* The ranking functions of fn.                                            *)
(***************************************************************************)
Undefined == [k |-> "undefined", m |-> << >>]
Obj(m) == [k |-> "object", m |-> m]

\* events.config.priorities[ev] as a number: a missing key reads undefined,
\* which arithmetic converts to NaN.
Priority(prio, ev) == IF ev \in DOMAIN prio THEN FromInt(prio[ev]) ELSE NaN

RECURSIVE SumPriorities(_, _)
SumPriorities(prio, keys) ==
  IF keys = {} THEN 0
  ELSE LET p == CHOOSE q \in keys : TRUE
       IN  prio[p] + SumPriorities(prio, keys \ {p})

\* mean after the loop over the event types of one element (lines 76-80).
RECURSIVE WeightedSum(_, _, _, _)
WeightedSum(evts, keys, prio, sum) ==
  IF keys = {} THEN Num(0)
  ELSE LET ev == CHOOSE q \in keys : TRUE
           w == DivN(Priority(prio, ev), sum)
       IN  AddN(MulN(FromInt(evts[ev]), w), WeightedSum(evts, keys \ {ev}, prio, sum))

sinh(value) ==
  LET r == MathExp(value)
  IN  DivN(SubN(r, DivN(FromInt(1), r)), FromInt(2))

sigmoid(value, multiplier) ==
  LET m == IF multiplier = 0 THEN 1 ELSE multiplier
  IN  sinh(MulN(value, FromInt(m)))

fuseRank(rank, prio, count) ==
  LET sum == FromInt(SumPriorities(prio, DOMAIN prio))
  IN  [elem \in DOMAIN rank |->
         LET evts == rank[elem]
             mean == WeightedSum(evts, DOMAIN evts, prio, sum)
             n == Cardinality(DOMAIN evts)
         IN  sigmoid(DivN(mean, FromInt(count)), n)]

\* diffRank with the sign of line 128 turned: the previous value is added.
diffRankAdds(newRank, oldRank) ==
  [elem \in DOMAIN newRank |->
     IF oldRank.k = "object" /\ elem \in DOMAIN oldRank.m /\ Truthy(oldRank.m[elem])
     THEN AddN(newRank[elem], oldRank.m[elem])
     ELSE newRank[elem]]

diffRank(newRank, oldRank) ==
  [elem \in DOMAIN newRank |->
     IF oldRank.k = "object" /\ elem \in DOMAIN oldRank.m /\ Truthy(oldRank.m[elem])
     THEN SubN(newRank[elem], oldRank.m[elem])
     ELSE newRank[elem]]

\* JSON.stringify of a rank: a finite number is written in full, NaN and
\* the infinities are written as null.  The text is held as the value it
\* denotes, which JSON.parse gives back.
JSONstringify(rank) ==
  [p \in DOMAIN rank |-> IF rank[p].k = "num" THEN rank[p] ELSE Null]
JSONparse(text) == Obj(text)

(***************************************************************************)
(* The document ACE is loaded in.  A node is its index in DOM; parentNode  *)
(* 0 is the document itself.  Siblings are in document order, which is the *)
(* order of the indices.                                                   *)
(*                                                                         *)
(*   html > body > ( div#menu > ( a , a ) , p > text )                     *)
(***************************************************************************)
ElementNode == 1
TextNode == 3

DOM ==
  << [nodeType |-> ElementNode, tagName |-> "HTML", parentNode |-> 0, hasId |-> FALSE, id |-> ""],
     [nodeType |-> ElementNode, tagName |-> "BODY", parentNode |-> 1, hasId |-> FALSE, id |-> ""],
     [nodeType |-> ElementNode, tagName |-> "DIV",  parentNode |-> 2, hasId |-> TRUE,  id |-> "menu"],
     [nodeType |-> ElementNode, tagName |-> "A",    parentNode |-> 3, hasId |-> FALSE, id |-> ""],
     [nodeType |-> ElementNode, tagName |-> "A",    parentNode |-> 3, hasId |-> FALSE, id |-> ""],
     [nodeType |-> ElementNode, tagName |-> "P",    parentNode |-> 2, hasId |-> FALSE, id |-> ""],
     [nodeType |-> TextNode,    tagName |-> "",     parentNode |-> 6, hasId |-> FALSE, id |-> ""] >>

Nodes == DOMAIN DOM
Elements == {n \in Nodes : DOM[n].nodeType = ElementNode}

\* String.prototype.toLowerCase on the tag names of the document.
toLowerCase(tag) ==
  CASE tag = "HTML" -> "html"
    [] tag = "BODY" -> "body"
    [] tag = "DIV" -> "div"
    [] tag = "A" -> "a"
    [] tag = "P" -> "p"
    [] tag = "MAIN" -> "main"
    [] tag = "SECTION" -> "section"
    [] OTHER -> tag

\* The xpath functions on a node of the tree dom; the functions of the
\* same name without "Of" are these on the document DOM.
\* The children of parent, in document order.
ChildNodesOf(dom, parent) ==
  SelectSeq([i \in 1..Len(dom) |-> i], LAMBDA c : dom[c].parentNode = parent)

getChildNodesWithTagNameOf(dom, parent, tagName) ==
  SelectSeq(ChildNodesOf(dom, parent),
            LAMBDA c : dom[c].tagName # "" /\ dom[c].tagName = tagName)

getChildTextNodesOf(dom, parent) ==
  SelectSeq(ChildNodesOf(dom, parent), LAMBDA c : dom[c].nodeType = TextNode)

\* The 1-based position of node in list, or 0 for the null the code
\* returns when node is the only member.
IndexIn(list, node) ==
  IF Len(list) = 1 /\ list[1] = node THEN 0
  ELSE CHOOSE i \in 1..Len(list) : list[i] = node

getNodeIndexOf(dom, node) ==
  IF dom[node].nodeType # ElementNode THEN 0
  ELSE IndexIn(getChildNodesWithTagNameOf(dom, dom[node].parentNode, dom[node].tagName), node)

getTextNodeIndexOf(dom, node) == IndexIn(getChildTextNodesOf(dom, dom[node].parentNode), node)

\* getNodePath that climbs to the root whatever ids it passes.
RECURSIVE getNodePathToRootOf(_, _)
getNodePathToRootOf(dom, node) ==
  IF node \notin DOMAIN dom \/ dom[node].nodeType \notin {ElementNode, TextNode} THEN << >>
  ELSE getNodePathToRootOf(dom, dom[node].parentNode) \o << node >>

RECURSIVE getNodePathOf(_, _)
getNodePathOf(dom, node) ==
  IF node \notin DOMAIN dom \/ dom[node].nodeType \notin {ElementNode, TextNode} THEN << >>
  ELSE IF dom[node].nodeType = ElementNode /\ dom[node].hasId THEN << node >>
  ELSE getNodePathOf(dom, dom[node].parentNode) \o << node >>

RECURSIVE Join(_, _)
Join(names, sep) ==
  IF names = << >> THEN ""
  ELSE IF Len(names) = 1 THEN names[1]
  ELSE names[1] \o sep \o Join(Tail(names), sep)

getXPathOf(dom, targetNode) ==
  LET nodePath == getNodePathOf(dom, targetNode)
      nodeName(i) ==
        LET node == nodePath[i]
        IN  IF dom[node].nodeType = ElementNode
            THEN IF i = 1 /\ dom[node].hasId
                 THEN "/*[@id='" \o dom[node].id \o "']"
                 ELSE IF getNodeIndexOf(dom, node) # 0
                      THEN toLowerCase(dom[node].tagName) \o "["
                           \o ToString(getNodeIndexOf(dom, node)) \o "]"
                      ELSE toLowerCase(dom[node].tagName)
            ELSE IF getTextNodeIndexOf(dom, node) # 0
                 THEN "text()[" \o ToString(getTextNodeIndexOf(dom, node)) \o "]"
                 ELSE "text()"
  IN  "/" \o Join([i \in 1..Len(nodePath) |-> nodeName(i)], "/")

ChildNodes(parent) == ChildNodesOf(DOM, parent)
getChildNodesWithTagName(parent, tagName) == getChildNodesWithTagNameOf(DOM, parent, tagName)
getChildTextNodes(parent) == getChildTextNodesOf(DOM, parent)
getNodeIndex(node) == getNodeIndexOf(DOM, node)
getTextNodeIndex(node) == getTextNodeIndexOf(DOM, node)
getNodePath(node) == getNodePathOf(DOM, node)
getXPath(targetNode) == getXPathOf(DOM, targetNode)

\* findElement: the path of the event's target, a text node giving way to
\* its parent.
findElement(target) ==
  getXPath(IF DOM[target].nodeType = TextNode THEN DOM[target].parentNode ELSE target)

(***************************************************************************)
(* Strings of CSS values: sequences of one-character strings.              *)
(***************************************************************************)
Digits == <<"0", "1", "2", "3", "4", "5", "6", "7", "8", "9">>
HexLower == Digits \o <<"a", "b", "c", "d", "e", "f">>
HexUpper == Digits \o <<"A", "B", "C", "D", "E", "F">>
Whitespace == {" "}

DigitChars == {Digits[i] : i \in 1..Len(Digits)}
HexChars == {HexLower[i] : i \in 1..Len(HexLower)} \cup {HexUpper[i] : i \in 1..Len(HexUpper)}
DigitValue(c) == (CHOOSE i \in 1..Len(Digits) : Digits[i] = c) - 1
HexValue(c) == (CHOOSE i \in 1..Len(HexLower) : HexLower[i] = c \/ HexUpper[i] = c) - 1

\* String.prototype.indexOf from a 1-based position: the 1-based position
\* of the first occurrence of sep at or after from, 0 for the code's -1.
RECURSIVE IndexOfFrom(_, _, _)
IndexOfFrom(str, sep, from) ==
  IF from + Len(sep) - 1 > Len(str) THEN 0
  ELSE IF SubSeq(str, from, from + Len(sep) - 1) = sep THEN from
  ELSE IndexOfFrom(str, sep, from + 1)

indexOf(str, sep) == IndexOfFrom(str, sep, 1)

\* String.prototype.substring with 0-based arguments: negatives count as 0
\* and the two ends are swapped when out of order.
substring(str, start, end) ==
  LET a == IF start < 0 THEN 0 ELSE IF start > Len(str) THEN Len(str) ELSE start
      b == IF end < 0 THEN 0 ELSE IF end > Len(str) THEN Len(str) ELSE end
      lo == IF a < b THEN a ELSE b
      hi == IF a < b THEN b ELSE a
  IN  SubSeq(str, lo + 1, hi)

\* String.prototype.substr with a 0-based start and a length.
substr(str, start, length) ==
  SubSeq(str, start + 1, (IF start + length > Len(str) THEN Len(str) ELSE start + length))

\* String.prototype.split on a non-empty separator: the sequence of parts.
RECURSIVE split(_, _)
split(str, sep) ==
  LET at == indexOf(str, sep)
  IN  IF at = 0 THEN << str >>
      ELSE << SubSeq(str, 1, at - 1) >> \o split(SubSeq(str, at + Len(sep), Len(str)), sep)

RECURSIVE SkipWhitespace(_)
SkipWhitespace(str) ==
  IF str # << >> /\ Head(str) \in Whitespace THEN SkipWhitespace(Tail(str)) ELSE str

\* The longest prefix of str made of characters of the set chars.
RECURSIVE TakeWhile(_, _)
TakeWhile(str, chars) ==
  IF str # << >> /\ Head(str) \in chars
  THEN << Head(str) >> \o TakeWhile(Tail(str), chars)
  ELSE << >>

\* The value of a digit string in the given radix, most significant first.
RECURSIVE DigitsValue(_, _, _)
DigitsValue(ds, radix, acc) ==
  IF ds = << >> THEN acc
  ELSE DigitsValue(Tail(ds), radix, acc * radix + HexValue(Head(ds)))

\* A sign prefix: its factor and what follows it.
SignOf(str) ==
  IF str # << >> /\ Head(str) = "-" THEN [f |-> -1, rest |-> Tail(str)]
  ELSE IF str # << >> /\ Head(str) = "+" THEN [f |-> 1, rest |-> Tail(str)]
  ELSE [f |-> 1, rest |-> str]

\* parseInt(str) and parseInt(str, 16): leading white space, a sign, then
\* the digits up to the first character that is none; NaN without digits.
\* The result is an integer, held as such (not in 1/Scale units).
parseIntRadix(str, radix) ==
  LET sg == SignOf(SkipWhitespace(str))
      ds == TakeWhile(sg.rest, IF radix = 16 THEN HexChars ELSE DigitChars)
  IN  IF ds = << >> THEN [k |-> "nan", v |-> 0]
      ELSE [k |-> "num", v |-> sg.f * DigitsValue(ds, radix, 0)]

\* An integer result as a number of the model.
IntToNum(i) == IF i.k = "num" THEN FromInt(i.v) ELSE NaN

\* The fraction digits ds as a count of 1/Scale units, digit by digit.
RECURSIVE FractionValue(_, _)
FractionValue(ds, unit) ==
  IF ds = << >> \/ unit = 0 THEN 0
  ELSE (DigitValue(Head(ds)) * unit) \div 10 + FractionValue(Tail(ds), unit \div 10)

\* parseFloat: leading white space, a sign, digits, a point and digits (an
\* exponent is not read); NaN when no digit is found.
parseFloat(str) ==
  LET sg == SignOf(SkipWhitespace(str))
      ip == TakeWhile(sg.rest, DigitChars)
      after == SubSeq(sg.rest, Len(ip) + 1, Len(sg.rest))
      fp == IF after # << >> /\ Head(after) = "." THEN TakeWhile(Tail(after), DigitChars) ELSE << >>
  IN  IF ip = << >> /\ fp = << >> THEN NaN
      ELSE Num(sg.f * (DigitsValue(ip, 10, 0) * Scale + FractionValue(fp, Scale)))

\* The digits of a natural number in the given radix.
RECURSIVE NatToString(_, _, _)
NatToString(n, radix, digits) ==
  IF n < radix THEN << digits[n + 1] >>
  ELSE NatToString(n \div radix, radix, digits) \o << digits[(n % radix) + 1] >>

\* The digits of the fraction frac / Scale in the given radix, without
\* trailing zeros, to the precision of the model.
RECURSIVE FractionToString(_, _, _, _)
FractionToString(frac, radix, digits, left) ==
  IF frac = 0 \/ left = 0 THEN << >>
  ELSE << digits[((frac * radix) \div Scale) + 1] >>
       \o FractionToString((frac * radix) % Scale, radix, digits, left - 1)

\* Number.prototype.toString(radix), and the string a number becomes when
\* it is joined to a string.
numberToString(a, radix) ==
  IF a.k = "nan" THEN <<"N", "a", "N">>
  ELSE IF a.k = "null" THEN <<"n", "u", "l", "l">>
  ELSE IF a.k = "inf"
       THEN (IF a.v < 0 THEN <<"-">> ELSE << >>) \o <<"I", "n", "f", "i", "n", "i", "t", "y">>
  ELSE LET m == Abs(a.v)
           fs == FractionToString(m % Scale, radix, HexLower, 3)
       IN  (IF a.v < 0 THEN <<"-">> ELSE << >>)
           \o NatToString(m \div Scale, radix, HexLower)
           \o (IF fs = << >> THEN << >> ELSE <<".">> \o fs)

\* String.prototype.toUpperCase on the characters a colour is written in.
toUpperCase(str) ==
  [i \in 1..Len(str) |->
     IF \E j \in 1..Len(HexLower) : HexLower[j] = str[i]
     THEN HexUpper[CHOOSE j \in 1..Len(HexLower) : HexLower[j] = str[i]]
     ELSE IF str[i] = "n" THEN "N" ELSE str[i]]

(***************************************************************************)
(* The restyling functions of fn.                                          *)
(***************************************************************************)
\* a % m for an integer m, as JavaScript computes it: the remainder takes
\* the sign of the dividend.
ModN(x, m) ==
  LET a == ToNumber(x)
  IN  IF a.k # "num" THEN NaN ELSE Num(Sign(a.v) * (Abs(a.v) % (m * Scale)))

cssDimensionAdapt(value, weight) ==
  LET multiplier == AddN(FromInt(1), weight)
  IN  IF GtN(value, Num(0)) THEN MulN(value, multiplier) ELSE multiplier

rgbBrightness(rgb) ==
  IF \E i \in 1..3 : rgb[i].k # "num" THEN NaN
  ELSE Num((rgb[1].v * 299 + rgb[2].v * 587 + rgb[3].v * 114) \div 1000)

rgb2hex(rgb) ==
  LET hex(c) ==
        LET r == numberToString(c, 16)
        IN  IF Len(r) < 2 THEN r \o r ELSE r
  IN  hex(rgb[1]) \o hex(rgb[2]) \o hex(rgb[3])

rgb2dec(rgb) == parseIntRadix(rgb2hex(rgb), 16)

\* cssColor takes the integer rgb2dec returns, which Math.floor leaves as is.
cssColor(num) ==
  LET str == IF num.k = "nan" THEN <<"N", "a", "N">>
             ELSE (IF num.v < 0 THEN <<"-">> ELSE << >>) \o NatToString(Abs(num.v), 16, HexLower)
      pad == [i \in 1..(IF Len(str) < 6 THEN 6 - Len(str) ELSE 0) |-> "0"]
  IN  <<"#">> \o toUpperCase(pad \o str)

cssColorAdapt(rgb, weight) ==
  LET oldBright == rgbBrightness(rgb)
      newBright == cssDimensionAdapt(oldBright, weight)
      csum == AddN(AddN(rgb[1], rgb[2]), rgb[3])
      darker == GtN(oldBright, newBright)
      diff == IF darker THEN ModN(SubN(csum, newBright), 255)
              ELSE ModN(SubN(newBright, oldBright), 255)
      adjust(c) ==
        IF darker
        THEN LET r == SubN(c, diff) IN IF GtN(Num(0), r) THEN Num(0) ELSE r
        ELSE LET r == AddN(c, diff) IN IF GtN(r, FromInt(255)) THEN FromInt(255) ELSE r
  IN  cssColor(rgb2dec(<< adjust(rgb[1]), adjust(rgb[2]), adjust(rgb[3]) >>))

\* parseColor gives the three channels; a channel the code leaves
\* undefined behaves as NaN in every use made of it.
parseColor(color) ==
  IF color # << >> /\ color[1] = "r"
  THEN LET fparen == indexOf(color, <<"(">>) - 1
           lparen == indexOf(color, <<")">>) - 1
           parts == split(substring(color, fparen + 1, lparen), <<",">>)
       IN  [j \in 1..3 |-> IF j <= Len(parts) THEN IntToNum(parseIntRadix(parts[j], 10)) ELSE NaN]
  ELSE IF color # << >> /\ color[1] = "#"
  THEN LET offset == IF Len(color) < 6 THEN 1 ELSE 2
       IN  [i \in 1..3 |->
              LET col == substr(color, 1 + (i - 1) * offset, offset)
              IN  IntToNum(parseIntRadix(IF offset = 1 THEN col \o col ELSE col, 16))]
  ELSE [j \in 1..3 |-> NaN]

\* parseDimension: unitDefined is false when split leaves no second part.
parseDimension(dim) ==
  LET value == parseFloat(dim)
      parts == split(dim, numberToString(value, 10))
  IN  [value |-> value,
       unitDefined |-> Len(parts) >= 2,
       unit |-> IF Len(parts) >= 2 THEN parts[2] ELSE << >>]

\* /color/.test(cssProp) on the property names of the model.
TestColor(cssProp) == cssProp \in {"color", "background-color"}

\* /[0-9]+/.test(cssValue)
TestDigit(cssValue) == \E i \in 1..Len(cssValue) : cssValue[i] \in DigitChars

getStyle(st, domElem, cssProp) == st[domElem][cssProp]

setStyle(st, domElem, cssProp, cssValue) == [st EXCEPT ![domElem][cssProp] = cssValue]

\* The value restyle hands to setStyle for a non-empty current value.
newCssVal(cssValue, cssProp, weight) ==
  IF TestColor(cssProp) THEN cssColorAdapt(parseColor(cssValue), weight)
  ELSE IF TestDigit(cssValue)
  THEN LET dim == parseDimension(cssValue)
       IN  IF dim.unitDefined
           THEN numberToString(cssDimensionAdapt(dim.value, weight), 10) \o dim.unit
           ELSE numberToString(NaN, 10)
  ELSE cssValue

\* restyle gives the styles after the call.
restyle(st, domElem, cssProp, weight) ==
  LET cssValue == getStyle(st, domElem, cssProp)
  IN  IF cssValue = << >> THEN st
      ELSE setStyle(st, domElem, cssProp, newCssVal(cssValue, cssProp, weight))

(***************************************************************************)
(* The state of a page and of the store it shares with its later loads.    *)
(***************************************************************************)
VARIABLES
  localStorage,  \* localStorage["ace-rank"]: [present, text]
  page,          \* the calls the page's script makes on each load
  phase,         \* "loaded", "configured", "tracking" or "unloaded"
  session,       \* the number of this page load
  prevRank,      \* var prevRank
  evRank,        \* var evRank
  evCount,       \* var evCount
  priorities,    \* events.config.priorities
  defaults,      \* events.config.defaults
  listeners,     \* the listeners bound to elements: <<node, type, handler>>
  style,         \* the value of each CSS property of each element
  pending,       \* the listener calls the current event has still to make
  dispatched,    \* the last user event and evCount when it was dispatched
  restyled,      \* the restyle calls adapt has made on this load
  saved,         \* newRank and diff of saveRank, once it has run
  history,       \* per finished session: the fused rank and the store left
  thrown         \* an exception has left a handler of this load

vars == << localStorage, page, phase, session, prevRank, evRank, evCount, priorities,
           defaults, listeners, style, pending, dispatched, restyled, saved, history,
           thrown >>

(***************************************************************************)
(* The style sheet of the document: the values getStyle reads on a fresh   *)
(* load.  An empty value is a property that is not accessible.             *)
(***************************************************************************)
Properties == {"color", "width", "font-weight"}

StyleSheet ==
  [n \in Elements |->
     CASE n = 3 -> [p \in Properties |->
                      CASE p = "color" -> <<"#", "8", "0", "8", "0", "8", "0">>
                        [] p = "width" -> <<"1", "0", "p", "x">>
                        [] OTHER -> <<"b", "o", "l", "d">>]
       [] n = 4 -> [p \in Properties |->
                      CASE p = "color" -> <<"p", "i", "n", "k">>
                        [] p = "width" -> <<"0", "p", "x">>
                        [] OTHER -> <<"7", "0", "0">>]
       [] n = 5 -> [p \in Properties |->
                      CASE p = "color" -> <<"#", "F", "0", "0">>
                        [] p = "width" -> << >>
                        [] OTHER -> <<"b", "o", "l", "d">>]
       [] n = 6 -> [p \in Properties |->
                      CASE p = "color" -> <<"r", "g", "b", "a", "(", "0", ",", " ", "0", ",", " ", "0", ",", " ", "0", ")">>
                        [] p = "width" -> <<"c", "a", "l", "c", "(", "1", "p", "x", ")">>
                        [] OTHER -> <<"4", "0", "0">>]
       [] OTHER -> [p \in Properties |->
                      CASE p = "color" -> <<"r", "g", "b", "(", "0", ",", " ", "0", ",", " ", "0", ")">>
                        [] p = "width" -> <<"a", "u", "t", "o">>
                        [] OTHER -> <<"4", "0", "0">>]]

(***************************************************************************)
(* The event binding of events.                                            *)
(***************************************************************************)
mouseEvts == <<"mousedown", "mouseup", "mousemove", "click", "scroll", "mousewheel">>
touchEvts == <<"touchstart", "touchend", "touchmove">>
keyEvts == <<"keydown", "keyup", "keypress">>
winEvts == <<"blur", "focus", "resize">>

\* events.add: addEventListener keeps one listener per node, type and function.
add(ls, obj, type, fn) == ls \cup {<< obj, type, fn >>}

\* events.remove
remove(ls, obj, type, fn) == ls \ {<< obj, type, fn >>}

\* events.init without the assignment of line 645: a default type is bound
\* and the priorities are left as the caller gave them.
initKeepsPriorities(b, ctx, ev, fn) ==
  IF ev \in DOMAIN b.priorities /\ b.priorities[ev] > 0
  THEN [b EXCEPT !.listeners = add(b.listeners, ctx, ev, fn)]
  ELSE IF b.defaults /\ ev \notin DOMAIN b.priorities
  THEN [b EXCEPT !.listeners = add(b.listeners, ctx, ev, fn)]
  ELSE b

\* events.init on the binding state b = [priorities, defaults, listeners].
init(b, ctx, ev, fn) ==
  IF ev \in DOMAIN b.priorities /\ b.priorities[ev] > 0
  THEN [b EXCEPT !.listeners = add(b.listeners, ctx, ev, fn)]
  ELSE IF b.defaults /\ ev \notin DOMAIN b.priorities
  THEN [b EXCEPT !.priorities = (ev :> 1) @@ b.priorities,
                 !.listeners = add(b.listeners, ctx, ev, fn)]
  ELSE b

\* The calls of init that initAll makes, in order: the fourth loop runs over
\* the length of winEvts and reads keyEvts[i].
initCalls ==
  [i \in 1..Len(mouseEvts) |-> << mouseEvts[i], "mouseHandler" >>]
  \o [i \in 1..Len(touchEvts) |-> << touchEvts[i], "touchHandler" >>]
  \o [i \in 1..Len(keyEvts) |-> << keyEvts[i], "keyHandler" >>]
  \o [i \in 1..Len(winEvts) |-> << keyEvts[i], "winHandler" >>]

RECURSIVE InitEach(_, _, _)
InitEach(b, context, calls) ==
  IF calls = << >> THEN b
  ELSE InitEach(init(b, context, Head(calls)[1], Head(calls)[2]), context, Tail(calls))

initAll(b, context) == InitEach(b, context, initCalls)

(***************************************************************************)
(* db, on localStorage.                                                    *)
(***************************************************************************)
Absent == [present |-> FALSE, text |-> << >>]
Stored(text) == [present |-> TRUE, text |-> text]

\* db.get("ace-rank") followed by the parse of adapt (lines 760-762).
dbGet(ls) == IF ls.present THEN JSONparse(ls.text) ELSE Undefined

\* db.set that leaves the store alone when the value to write is empty.
dbSetSkipsEmpty(ls, value, accepted) ==
  IF ~accepted THEN [store |-> ls, threw |-> TRUE]
  ELSE IF value = << >> THEN [store |-> ls, threw |-> FALSE]
  ELSE [store |-> Stored(value), threw |-> FALSE]

\* db.set("ace-rank", value): the assignment stores the value, or throws
\* when the store refuses it (quota exceeded, storage disabled).
dbSet(ls, value, accepted) ==
  IF accepted THEN [store |-> Stored(value), threw |-> FALSE]
  ELSE [store |-> ls, threw |-> TRUE]

(***************************************************************************)
(* The tracking and unload functions of fn on r = [evRank, evCount].       *)
(***************************************************************************)
\* updateRank without the increment of line 47.
updateRankNoTotal(r, type, target) ==
  LET elem == findElement(target)
      evts == IF elem \in DOMAIN r.evRank THEN r.evRank[elem] ELSE << >>
      old == IF type \in DOMAIN evts THEN evts[type] ELSE 0
  IN  [evRank |-> (elem :> ((type :> old + 1) @@ evts)) @@ r.evRank,
       evCount |-> r.evCount]

\* updateRank(e) for an event of the given type (the key "undefined" when e
\* has no type) whose target is the node target.
updateRank(r, type, target) ==
  LET elem == findElement(target)
      evts == IF elem \in DOMAIN r.evRank THEN r.evRank[elem] ELSE << >>
      old == IF type \in DOMAIN evts THEN evts[type] ELSE 0
  IN  [evRank |-> (elem :> ((type :> old + 1) @@ evts)) @@ r.evRank,
       evCount |-> r.evCount + 1]

\* saveRank that stores the fused rank in place of the difference.
saveRankStoresFused(r, prio, oldRank, ls, accepted) ==
  LET newRank == fuseRank(r.evRank, prio, r.evCount)
      diff == diffRank(newRank, oldRank)
      set == dbSet(ls, JSONstringify(newRank), accepted)
  IN  [newRank |-> newRank, diff |-> diff, store |-> set.store, threw |-> set.threw]

\* saveRank: the ranks it computes and what db.set makes of the store.
saveRank(r, prio, oldRank, ls, accepted) ==
  LET newRank == fuseRank(r.evRank, prio, r.evCount)
      diff == diffRank(newRank, oldRank)
      set == dbSet(ls, JSONstringify(diff), accepted)
  IN  [newRank |-> newRank, diff |-> diff, store |-> set.store, threw |-> set.threw]

(***************************************************************************)
(* The API: ACE.listen and ACE.adapt.                                      *)
(***************************************************************************)
\* ACE.listen on b = [priorities, defaults, listeners]; keepDefaults is
\* "undefined", "true" or "false".
listen(b, objEvts, keepDefaults) ==
  [b EXCEPT !.priorities = objEvts,
            !.defaults = IF keepDefaults # "undefined" THEN keepDefaults = "true" ELSE @]

\* context.querySelectorAll for a tag selector or an id selector, in
\* document order.
querySelectorAll(selector) ==
  SelectSeq([i \in 1..Len(DOM) |-> i],
            LAMBDA n : /\ DOM[n].nodeType = ElementNode
                       /\ IF selector.kind = "id"
                          THEN DOM[n].hasId /\ DOM[n].id = selector.name
                          ELSE toLowerCase(DOM[n].tagName) = selector.name)

\* The loop over the properties without the test of line 771: an element
\* whose path the previous rank lacks is restyled with weight 0.
RECURSIVE AdaptPropertiesAlways(_, _, _, _)
AdaptPropertiesAlways(a, oldRank, domElement, properties) ==
  IF properties = << >> THEN a
  ELSE LET currElem == getXPath(domElement)
           weight == IF oldRank.k = "object" /\ currElem \in DOMAIN oldRank.m
                     THEN oldRank.m[currElem] ELSE Num(0)
       IN  AdaptPropertiesAlways(
             [a EXCEPT !.style = restyle(a.style, domElement, Head(properties), weight),
                       !.restyled = Append(a.restyled,
                                      [node |-> domElement,
                                       property |-> Head(properties),
                                       weight |-> weight])],
             oldRank, domElement, Tail(properties))

\* The loop over the properties of one element (lines 769-775) on
\* a = [style, binding, restyled].
RECURSIVE AdaptProperties(_, _, _, _)
AdaptProperties(a, oldRank, domElement, properties) ==
  IF properties = << >> THEN a
  ELSE LET currElem == getXPath(domElement)
           next == IF oldRank.k = "object" /\ currElem \in DOMAIN oldRank.m
                   THEN LET weight == oldRank.m[currElem]
                        IN  [a EXCEPT !.style = restyle(a.style, domElement, Head(properties), weight),
                                      !.restyled = Append(a.restyled,
                                                     [node |-> domElement,
                                                      property |-> Head(properties),
                                                      weight |-> weight])]
                   ELSE a
       IN  AdaptProperties(next, oldRank, domElement, Tail(properties))

\* events.initAll on the binding of a (line 777).
BindElement(a, domElement) == [a EXCEPT !.binding = initAll(@, domElement)]

\* The loop over the elements of one selector (lines 767-778).
RECURSIVE AdaptElements(_, _, _, _)
AdaptElements(a, oldRank, domElements, properties) ==
  IF domElements = << >> THEN a
  ELSE AdaptElements(BindElement(AdaptProperties(a, oldRank, Head(domElements), properties),
                                 Head(domElements)),
                     oldRank, Tail(domElements), properties)

\* The loop over the selectors of the configuration (lines 763-779).
RECURSIVE AdaptSelectors(_, _, _)
AdaptSelectors(a, oldRank, config) ==
  IF config = << >> THEN a
  ELSE AdaptSelectors(AdaptElements(a, oldRank, querySelectorAll(Head(config).selector),
                                    Head(config).properties),
                      oldRank, Tail(config))

\* ACE.adapt: the rank read from the store, and the styles, binding and
\* restyle calls after the loops.
adapt(st, b, ls, config) ==
  [prevRank |-> dbGet(ls)]
  @@ AdaptSelectors([style |-> st, binding |-> b, restyled |-> << >>], dbGet(ls), config)

(***************************************************************************)
(* The calls a page makes and the events a user gives it.                  *)
(***************************************************************************)
NoListen == [called |-> FALSE, objEvts |-> << >>, keepDefaults |-> "undefined"]
Listen1(objEvts, keepDefaults) ==
  [called |-> TRUE, objEvts |-> objEvts, keepDefaults |-> keepDefaults]

ListenCalls ==
  { NoListen,
    Listen1(("click" :> 1), "undefined"),
    Listen1(("click" :> 1), "false"),
    Listen1(("click" :> 2) @@ ("keydown" :> 1) @@ ("touchstart" :> 1) @@ ("mouseup" :> 0), "false") }

Tag(name) == [kind |-> "tag", name |-> name]
Id(name) == [kind |-> "id", name |-> name]

ConfigLinks == << [selector |-> Tag("a"), properties |-> <<"color", "width">>] >>
ConfigNested ==
  << [selector |-> Tag("div"), properties |-> <<"width">>],
     [selector |-> Tag("a"), properties |-> <<"color">>] >>
ConfigTwice ==
  << [selector |-> Id("menu"), properties |-> <<"color">>],
     [selector |-> Tag("div"), properties |-> <<"font-weight">>],
     [selector |-> Tag("p"), properties |-> <<"color", "width">>] >>

Configs == {ConfigLinks, ConfigNested, ConfigTwice}

Pages == [listen : ListenCalls, config : Configs]

EventTypes == {"click", "keydown", "touchstart"}

\* The elements the user acts on: div#menu, its first link and the paragraph.
Targets == {n \in Elements : getXPath(n) \in {"//*[@id='menu']", "//*[@id='menu']/a[1]", "/html/body/p"}}

\* The types that propagate from the target to its ancestors.
Bubbles(type) == type \notin {"blur", "focus", "scroll"}

\* The elements an event passes, from its target up.
RECURSIVE PropagationPath(_)
PropagationPath(node) ==
  IF node \notin Nodes THEN << >> ELSE << node >> \o PropagationPath(DOM[node].parentNode)

HandlerOrder == <<"mouseHandler", "touchHandler", "keyHandler", "winHandler">>

\* The listener calls an event of the given type on target sets off.
RECURSIVE ListenerCalls(_, _, _, _)
ListenerCalls(ls, type, target, path) ==
  IF path = << >> THEN << >>
  ELSE SelectSeq([i \in 1..Len(HandlerOrder) |->
                    [handler |-> HandlerOrder[i], type |-> type, target |-> target,
                     node |-> Head(path)]],
                 LAMBDA c : << c.node, c.type, c.handler >> \in ls)
       \o ListenerCalls(ls, type, target, Tail(path))

NoEvent == [type |-> "", target |-> 0, before |-> 0, calls |-> 0, total |-> 0]
NotSaved == [ran |-> FALSE, refused |-> FALSE, newRank |-> << >>, diff |-> << >>]

(***************************************************************************)
(* The page sessions.                                                      *)
(***************************************************************************)
Fresh ==
  /\ phase = "loaded"
  /\ prevRank = Obj(<< >>)
  /\ evRank = << >>
  /\ evCount = 0
  /\ priorities = << >>
  /\ defaults = TRUE
  /\ listeners = {}
  /\ style = StyleSheet
  /\ pending = << >>
  /\ restyled = << >>
  /\ saved = NotSaved
  /\ thrown = FALSE

InitWith(pages) ==
  /\ localStorage = Absent
  /\ page \in pages
  /\ session = 1
  /\ dispatched = NoEvent
  /\ history = << >>
  /\ Fresh

Init == InitWith(Pages)

Binding == [priorities |-> priorities, defaults |-> defaults, listeners |-> listeners]

\* The page calls ACE.listen.
Listen ==
  /\ phase = "loaded"
  /\ page.listen.called
  /\ \E b \in {listen(Binding, page.listen.objEvts, page.listen.keepDefaults)} :
         /\ priorities' = b.priorities
         /\ defaults' = b.defaults
  /\ phase' = "configured"
  /\ UNCHANGED << localStorage, page, session, prevRank, evRank, evCount, listeners, style,
                  pending, dispatched, restyled, saved, history, thrown >>

\* The page calls ACE.adapt, which also binds saveRank to the unload of the
\* window.
Adapt ==
  /\ \/ phase = "configured"
     \/ phase = "loaded" /\ ~page.listen.called
  /\ \E a \in {adapt(style, Binding, localStorage, page.config)} :
         /\ prevRank' = a.prevRank
         /\ style' = a.style
         /\ priorities' = a.binding.priorities
         /\ listeners' = a.binding.listeners
         /\ restyled' = a.restyled
  /\ phase' = "tracking"
  /\ UNCHANGED << localStorage, page, session, evRank, evCount, defaults, pending,
                  dispatched, saved, history, thrown >>

\* The user gives an event: the listeners bound along its path are due.
Dispatch(type, target, limit) ==
  /\ phase = "tracking"
  /\ pending = << >>
  /\ dispatched.total < limit
  /\ \E calls \in {ListenerCalls(listeners, type, target,
                                    IF Bubbles(type) THEN PropagationPath(target)
                                    ELSE << target >>)} :
         /\ pending' = calls
         /\ dispatched' = [type |-> type, target |-> target, before |-> evCount,
                           calls |-> Len(calls), total |-> dispatched.total + 1]
  /\ UNCHANGED << localStorage, page, phase, session, prevRank, evRank, evCount, priorities,
                  defaults, listeners, style, restyled, saved, history, thrown >>

\* A listener that hands its event to updateRank.
Handle(handler) ==
  /\ pending # << >>
  /\ Head(pending).handler = handler
  /\ \E r \in {updateRank([evRank |-> evRank, evCount |-> evCount],
                            Head(pending).type, Head(pending).target)} :
         /\ evRank' = r.evRank
         /\ evCount' = r.evCount
  /\ pending' = Tail(pending)
  /\ UNCHANGED << localStorage, page, phase, session, prevRank, priorities, defaults,
                  listeners, style, dispatched, restyled, saved, history, thrown >>

mouseHandler == Handle("mouseHandler")
keyHandler == Handle("keyHandler")
winHandler == Handle("winHandler")

\* touchHandler, for an event whose touches list holds its touch: the
\* emulated mouse listener is removed from the document and the Touch
\* object, which has a target and no type, goes to mouseHandler.
touchHandler ==
  /\ pending # << >>
  /\ Head(pending).handler = "touchHandler"
  /\ IF Head(pending).type \in {"touchstart", "touchmove", "touchend"}
     THEN \E r \in {updateRank([evRank |-> evRank, evCount |-> evCount],
                               "undefined", Head(pending).target)} :
            /\ listeners' = remove(listeners, 0, Head(pending).type, "mouseHandler")
            /\ evRank' = r.evRank
            /\ evCount' = r.evCount
     ELSE UNCHANGED << listeners, evRank, evCount >>
  /\ pending' = Tail(pending)
  /\ UNCHANGED << localStorage, page, phase, session, prevRank, priorities, defaults,
                  style, dispatched, restyled, saved, history, thrown >>

\* The window unloads: saveRank runs, and the store takes the write or
\* refuses it.  With record set, the session is added to history.
Unload(accepted, record) ==
  /\ phase = "tracking"
  /\ pending = << >>
  /\ \E s \in {saveRank([evRank |-> evRank, evCount |-> evCount], priorities, prevRank,
                          localStorage, accepted)} :
         /\ localStorage' = s.store
         /\ saved' = [ran |-> TRUE, refused |-> ~accepted, newRank |-> s.newRank, diff |-> s.diff]
         /\ thrown' = (thrown \/ s.threw)
         /\ history' = IF record
                        THEN Append(history, [fused |-> s.newRank, stored |-> s.store,
                                              accepted |-> accepted])
                        ELSE history
  /\ phase' = "unloaded"
  /\ UNCHANGED << page, session, prevRank, evRank, evCount, priorities, defaults, listeners,
                  style, pending, dispatched, restyled >>

\* The page is loaded again: its variables start afresh, the store stays.
Reload(loads) ==
  /\ phase = "unloaded"
  /\ session < loads
  /\ session' = session + 1
  /\ dispatched' = [NoEvent EXCEPT !.total = dispatched.total]
  /\ phase' = "loaded"
  /\ prevRank' = Obj(<< >>)
  /\ evRank' = << >>
  /\ evCount' = 0
  /\ priorities' = << >>
  /\ defaults' = TRUE
  /\ listeners' = {}
  /\ style' = StyleSheet
  /\ pending' = << >>
  /\ restyled' = << >>
  /\ saved' = NotSaved
  /\ thrown' = FALSE
  /\ UNCHANGED << localStorage, page, history >>

Next ==
  \/ Listen
  \/ Adapt
  \/ \E type \in EventTypes, target \in Targets : Dispatch(type, target, MaxEvents)
  \/ mouseHandler
  \/ keyHandler
  \/ winHandler
  \/ touchHandler
  \/ \E accepted \in BOOLEAN : Unload(accepted, FALSE)
  \/ Reload(MaxLoads)

Spec == Init /\ [][Next]_vars

\* Sessions of clicks, each added to history.
NextSessions ==
  \/ Listen
  \/ Adapt
  \/ \E target \in Targets : Dispatch("click", target, MaxEvents)
  \/ mouseHandler
  \/ \E accepted \in BOOLEAN : Unload(accepted, TRUE)
  \/ Reload(MaxSessions)

SpecSessions == Init /\ [][NextSessions]_vars

\* One session of clicks on a page that calls ACE.listen({click: 1}), with
\* or without keepDefaults set to false.
ClickPages ==
  {pg \in Pages : pg.listen.called /\ pg.listen.objEvts = ("click" :> 1)}

NextClicks ==
  \/ Listen
  \/ Adapt
  \/ \E target \in Targets : Dispatch("click", target, MaxClicks)
  \/ mouseHandler
  \/ \E accepted \in BOOLEAN : Unload(accepted, FALSE)

SpecClicks == InitWith(ClickPages) /\ [][NextClicks]_vars

(***************************************************************************)
(* fuseRank on its own.  The inputs are the tracking states a page can     *)
(* unload in, seen from one element: the priorities and listeners that     *)
(* listen and adapt leave, evCount events in all, some of them on the      *)
(* element and the others elsewhere in the document.                       *)
(***************************************************************************)
FreshBinding == [priorities |-> << >>, defaults |-> TRUE, listeners |-> {}]

\* The binding a page has once its calls of listen and adapt have returned.
BindingAfterAdapt(pg) ==
  adapt(StyleSheet,
        IF pg.listen.called
        THEN listen(FreshBinding, pg.listen.objEvts, pg.listen.keepDefaults)
        ELSE FreshBinding,
        Absent, pg.config).binding

\* The keys updateRank can write for the events of EventTypes under the
\* listeners ls: the type of the event, or "undefined" from touchHandler.
RecordedTypes(ls) ==
  {IF l[3] = "touchHandler" THEN "undefined" ELSE l[2] : l \in {m \in ls : m[2] \in EventTypes}}

FusePath == "//*[@id='menu']"

RECURSIVE SumCounts(_, _)
SumCounts(evts, keys) ==
  IF keys = {} THEN 0
  ELSE LET t == CHOOSE q \in keys : TRUE
       IN  evts[t] + SumCounts(evts, keys \ {t})

\* The counts of one element: nothing recorded, or each type of a set
\* recorded once.
FirstCounts(types) == UNION {[ts -> {1}] : ts \in SUBSET types}

InitFuse ==
  /\ localStorage = Absent
  /\ page \in Pages
  /\ session = 1
  /\ dispatched = NoEvent
  /\ history = << >>
  /\ phase = "tracking"
  /\ prevRank = Undefined
  /\ \E b \in {BindingAfterAdapt(page)} :
         /\ priorities = b.priorities
         /\ defaults = b.defaults
         /\ listeners = b.listeners
         /\ \E evts \in FirstCounts(RecordedTypes(b.listeners)) :
                evRank = (FusePath :> evts)
  /\ evCount \in 1..MaxCount
  /\ SumCounts(evRank[FusePath], DOMAIN evRank[FusePath]) <= evCount
  /\ style = StyleSheet
  /\ pending = << >>
  /\ restyled = << >>
  /\ saved = NotSaved
  /\ thrown = FALSE

\* fuseRank is applied to the counts.
Fuse ==
  /\ ~saved.ran
  /\ saved' = [saved EXCEPT !.ran = TRUE, !.newRank = fuseRank(evRank, priorities, evCount)]
  /\ UNCHANGED << localStorage, page, phase, session, prevRank, evRank, evCount, priorities,
                  defaults, listeners, style, pending, dispatched, restyled, history, thrown >>

\* One of the evCount events is of the given type on the element instead of
\* elsewhere, and fuseRank is applied again.
Raise(type) ==
  /\ saved.ran
  /\ type \in RecordedTypes(listeners)
  /\ SumCounts(evRank[FusePath], DOMAIN evRank[FusePath]) < evCount
  /\ \E r \in {updateRank([evRank |-> evRank, evCount |-> evCount - 1],
                            type, CHOOSE n \in Elements : getXPath(n) = FusePath)} :
         /\ evRank' = r.evRank
         /\ saved' = [saved EXCEPT !.newRank = fuseRank(r.evRank, priorities, r.evCount)]
  /\ UNCHANGED << localStorage, page, phase, session, prevRank, evCount, priorities,
                  defaults, listeners, style, pending, dispatched, restyled, history, thrown >>

NextFuse ==
  \/ Fuse
  \/ \E type \in EventTypes \cup {"undefined"} : Raise(type)

SpecFuse == InitFuse /\ [][NextFuse]_vars

(***************************************************************************)
(* restyle on its own: a page whose style sheet gives div#menu one colour  *)
(* or one dimension, a stored rank with a weight for div#menu, and the     *)
(* call of ACE.adapt that restyles that property.                          *)
(***************************************************************************)
Channels == {LowChannel} \cup {c * ChannelStep : c \in 0..(255 \div ChannelStep)}

\* A colour as getComputedStyle writes it.
RgbText(r, g, b) ==
  <<"r", "g", "b", "(">> \o NatToString(r, 10, HexLower) \o <<",", " ">>
  \o NatToString(g, 10, HexLower) \o <<",", " ">> \o NatToString(b, 10, HexLower) \o <<")">>

ColourTexts == {RgbText(r, g, b) : r \in Channels, g \in Channels, b \in Channels}

\* The numerals of a dimension, each with the number it denotes: an integer
\* part, then no fraction, the fraction .5 or the fraction .50.
Numerals ==
  {[text |-> NatToString(i, 10, HexLower) \o f.text, value |-> Num(i * Scale + f.value)] :
     i \in (0..MaxMagnitude) \cup {10},
     f \in {[text |-> << >>, value |-> 0],
            [text |-> <<".", "5">>, value |-> Scale \div 2],
            [text |-> <<".", "5", "0">>, value |-> Scale \div 2]}}

Units == {<<"p", "x">>, <<"e", "m">>, <<"%">>}

\* The dimensions of the model: text, magnitude and unit.
Dimensions ==
  {[text |-> n.text \o u, magnitude |-> n.value, unit |-> u] : n \in Numerals, u \in Units}

Weights == {0, 1}

RestyleNode == CHOOSE n \in Elements : getXPath(n) = FusePath

\* The pages of one property: the style sheet read on load and the
\* configuration that names the property for div#menu.
RestylePages ==
  {[listen |-> NoListen,
    config |-> << [selector |-> Id("menu"), properties |-> << cssProp >>] >>,
    sheet |-> [StyleSheet EXCEPT ![RestyleNode][cssProp] = value]] :
     cssProp \in {"color"}, value \in ColourTexts}
  \cup
  {[listen |-> NoListen,
    config |-> << [selector |-> Id("menu"), properties |-> << cssProp >>] >>,
    sheet |-> [StyleSheet EXCEPT ![RestyleNode][cssProp] = d.text]] :
     cssProp \in {"width"}, d \in Dimensions}

InitRestyle ==
  /\ \E w \in Weights : localStorage = Stored(FusePath :> FromInt(w))
  /\ page \in RestylePages
  /\ session = 1
  /\ dispatched = NoEvent
  /\ history = << >>
  /\ phase = "loaded"
  /\ prevRank = Obj(<< >>)
  /\ evRank = << >>
  /\ evCount = 0
  /\ priorities = << >>
  /\ defaults = TRUE
  /\ listeners = {}
  /\ style = page.sheet
  /\ pending = << >>
  /\ restyled = << >>
  /\ saved = NotSaved
  /\ thrown = FALSE

SpecRestyle == InitRestyle /\ [][Adapt]_vars

(***************************************************************************)
(* getXPath on its own: two documents that hold the element of id "menu"   *)
(* with its links, the first link with a text, under different ancestors   *)
(* and beside different siblings; getXPath is called on a node of the menu *)
(* in the first document, then in the second, then in the first again.     *)
(***************************************************************************)
Element(tag, parent) ==
  [nodeType |-> ElementNode, tagName |-> tag, parentNode |-> parent, hasId |-> FALSE, id |-> ""]

WithId(node, id) == [node EXCEPT !.hasId = TRUE, !.id = id]

Text(parent) ==
  [nodeType |-> TextNode, tagName |-> "", parentNode |-> parent, hasId |-> FALSE, id |-> ""]

\* The index of the menu in a document of so many wrappers and divs before.
MenuOf(wrappers, before) == 2 + wrappers + before + 1

\* html > body > section > .. > ( div, .., div#menu > ( a > text, a, .. ) )
Document(bodyTag, bodyId, wrappers, before, links) ==
  << Element("HTML", 0),
     IF bodyId THEN WithId(Element(bodyTag, 1), "page") ELSE Element(bodyTag, 1) >>
  \o [i \in 1..wrappers |-> Element("SECTION", 1 + i)]
  \o [i \in 1..before |-> Element("DIV", 2 + wrappers)]
  \o << WithId(Element("DIV", 2 + wrappers), "menu"),
        Element("A", MenuOf(wrappers, before)),
        Text(MenuOf(wrappers, before) + 1) >>
  \o [i \in 1..(links - 1) |-> Element("A", MenuOf(wrappers, before))]

Documents ==
  {[dom |-> Document(bodyTag, bodyId, wrappers, before, links),
    menu |-> MenuOf(wrappers, before)] :
     bodyTag \in {"BODY", "MAIN"}, bodyId \in BOOLEAN, wrappers \in 0..MaxWrappers,
     before \in 0..MaxBefore, links \in 1..MaxLinks}

\* The nodes of the menu of document d.
MenuNodes(d) == {n \in DOMAIN d.dom : n >= d.menu}

InitPaths ==
  /\ localStorage = Absent
  /\ page \in [first : Documents, second : Documents]
  /\ session = 1
  /\ dispatched = NoEvent
  /\ history = << >>
  /\ phase = "loaded"
  /\ prevRank = Obj(<< >>)
  /\ evRank = << >>
  /\ evCount = 0
  /\ priorities = << >>
  /\ defaults = TRUE
  /\ listeners = {}
  /\ style = << >>
  /\ pending = << >>
  /\ restyled = << >>
  /\ saved = NotSaved
  /\ thrown = FALSE

\* xpath.getXPath(node) in document d: the call is added to history.
Located(d, node) ==
  /\ history' = Append(history, [document |-> d, node |-> node, path |-> getXPathOf(d.dom, node)])
  /\ UNCHANGED << localStorage, page, phase, session, prevRank, evRank, evCount, priorities,
                  defaults, listeners, style, pending, dispatched, restyled, saved, thrown >>

LocateInFirst ==
  /\ history = << >>
  /\ \E node \in MenuNodes(page.first) : Located(page.first, node)

LocateInSecond ==
  /\ Len(history) = 1
  /\ \E node \in MenuNodes(page.second) : Located(page.second, node)

LocateAgain ==
  /\ Len(history) = 2
  /\ Located(history[1].document, history[1].node)

NextPaths == LocateInFirst \/ LocateInSecond \/ LocateAgain

SpecPaths == InitPaths /\ [][NextPaths]_vars

(***************************************************************************)
(* Properties.                                                             *)
(***************************************************************************)
\* The store as adapt found it on this load.
StoreAtAdapt == IF prevRank.k = "object" THEN Stored(prevRank.m) ELSE Absent

\* C1: once saveRank has run, the reconciled rank has exactly the keys of
\* the fused rank; a path the previous rank holds carries the fused value
\* minus the previous one, any other path the fused value; and with no
\* previous rank the reconciled rank is the fused rank.
C1_ReconcileIsDifference ==
  saved.ran =>
    /\ DOMAIN saved.diff = DOMAIN saved.newRank
    /\ \A p \in DOMAIN saved.newRank :
         saved.diff[p] = IF prevRank.k = "object" /\ p \in DOMAIN prevRank.m
                         THEN SubN(saved.newRank[p], prevRank.m[p])
                         ELSE saved.newRank[p]
    /\ (prevRank.k = "undefined" => saved.diff = saved.newRank)

\* C1 witness: saveRank has run against a previous rank that shares a path
\* of non-zero weight with the fused rank and holds a path the fused rank
\* lacks.
C1_Witness ==
  /\ saved.ran
  /\ prevRank.k = "object"
  /\ \E p \in DOMAIN saved.newRank \cap DOMAIN prevRank.m :
       /\ Truthy(prevRank.m[p])
       /\ saved.newRank[p].k = "num"
       /\ saved.diff[p] # saved.newRank[p]
  /\ DOMAIN prevRank.m \ DOMAIN saved.newRank # {}

\* The sessions finished so far all stored their rank and all fused the
\* same finite value for path p, the first of them finding no stored rank.
SameFusedRank(p) ==
  /\ history # << >>
  /\ \A k \in 1..Len(history) :
       /\ history[k].accepted
       /\ p \in DOMAIN history[k].fused
       /\ history[k].fused[p].k = "num"
       /\ history[k].fused[p] = history[1].fused[p]

PersistedAfter(k, p) == history[k].stored.text[p]

\* C2 as stated: with the same fused rank in every session the persisted
\* value is 0 after the second session and its magnitude never rises in a
\* later session.
C2_TrendsToZero ==
  \A p \in (IF history = << >> THEN {} ELSE DOMAIN history[1].fused) :
    SameFusedRank(p) =>
      /\ Len(history) >= 2 => PersistedAfter(2, p) = Num(0)
      /\ \A k \in 3..Len(history) :
           Abs(PersistedAfter(k, p).v) <= Abs(PersistedAfter(k - 1, p).v)

\* C2 amended: with the same fused rank f in every session the persisted
\* value alternates: f after every odd session, 0 after every even one.
C2_Alternates ==
  \A p \in (IF history = << >> THEN {} ELSE DOMAIN history[1].fused) :
    SameFusedRank(p) =>
      \A k \in 1..Len(history) :
        PersistedAfter(k, p) = IF k % 2 = 1 THEN history[1].fused[p] ELSE Num(0)

\* C2 witness: three sessions have stored the same non-zero fused value for
\* a path.
C2_Witness ==
  /\ Len(history) >= 3
  /\ \E p \in DOMAIN history[1].fused : SameFusedRank(p) /\ history[1].fused[p].v # 0

\* The count of events of type t on path p in rank, 0 when there is none.
CountOf(rank, p, t) ==
  IF p \in DOMAIN rank /\ t \in DOMAIN rank[p] THEN rank[p][t] ELSE 0

\* A step in which the listener at the head of pending has run.
ListenerRan == pending # << >> /\ pending' = Tail(pending)

\* C3: a listener call, which hands updateRank an event of type t with a
\* target of path p, adds exactly 1 to the count of t on p and to evCount,
\* and leaves every other count and the previous rank as they were.  The
\* Touch object that touchHandler passes on has no type: t is "undefined".
C3_RecordAddsOne ==
  [][ListenerRan =>
       LET e == Head(pending)
           p == getXPath(e.target)
           t == IF e.handler = "touchHandler" THEN "undefined" ELSE e.type
       IN  /\ p \in DOMAIN evRank'
           /\ t \in DOMAIN evRank'[p]
           /\ evRank'[p][t] = CountOf(evRank, p, t) + 1
           /\ evCount' = evCount + 1
           /\ \A q \in DOMAIN evRank' :
                \A u \in DOMAIN evRank'[q] :
                  << q, u >> # << p, t >> => evRank'[q][u] = CountOf(evRank, q, u)
           /\ \A q \in DOMAIN evRank : q \in DOMAIN evRank' /\ DOMAIN evRank[q] \subseteq DOMAIN evRank'[q]
           /\ prevRank' = prevRank]_vars

\* C3 witness: a count has been created and then increased again, beside
\* another entry, with a previous rank loaded.
C3_Witness ==
  /\ prevRank.k = "object"
  /\ prevRank.m # << >>
  /\ \E p \in DOMAIN evRank : \E t \in DOMAIN evRank[p] : evRank[p][t] >= 2
  /\ evCount >= 3

\* C4: once the listeners of a user event that some listener observed have
\* run, evCount is 1 more than when the event was dispatched.
C4_OncePerEvent ==
  (phase = "tracking" /\ pending = << >> /\ dispatched.calls >= 1)
    => evCount = dispatched.before + 1

\* evRank holds exactly five clicks on the one path P, five events in all.
FiveClicksOn(P) == evRank = (P :> ("click" :> 5)) /\ evCount = 5

\* The event types initAll binds by default.
DefaultTypes == {initCalls[i][1] : i \in DOMAIN initCalls}

\* C5 as stated: after listen({click: 1}) and adapt, five clicks on one
\* path P fuse to sinh(1), and the priorities fuseRank reads at unload are
\* the ones the caller gave.
C5_FusedIsSinhOne ==
  \A P \in DOMAIN evRank :
    (saved.ran /\ FiveClicksOn(P)) =>
      /\ saved.newRank[P] = sinh(FromInt(1))
      /\ priorities = page.listen.objEvts

\* C5 amended: with keepDefaults false the priorities stay {click: 1} and
\* five clicks on one path P fuse to sinh(1); with keepDefaults not given,
\* adapt has added priority 1 for every other default type it binds, the
\* sum of the priorities is the number of those types, and the clicks fuse
\* to sinh of 1 over that number.
C5_FusedByBoundTypes ==
  \A P \in DOMAIN evRank :
    (saved.ran /\ FiveClicksOn(P)) =>
      IF page.listen.keepDefaults = "false"
      THEN /\ priorities = ("click" :> 1)
           /\ saved.newRank[P] = sinh(FromInt(1))
      ELSE /\ priorities = [t \in DefaultTypes |-> 1]
           /\ saved.newRank[P] = sinh(DivN(FromInt(1), FromInt(Cardinality(DefaultTypes))))
           /\ saved.newRank[P] # sinh(FromInt(1))

\* C5 witness: saveRank has fused five clicks on one path in a session
\* started with listen({click: 1}) and no keepDefaults.
C5_Witness ==
  /\ saved.ran
  /\ page.listen.keepDefaults = "undefined"
  /\ \E P \in DOMAIN evRank : FiveClicksOn(P) /\ saved.newRank[P].k = "num"

\* Every count of evts is zero (none is recorded).
ZeroCounts(evts) == \A t \in DOMAIN evts : evts[t] = 0

\* The magnitude of a fused value.
Magnitude(a) == IF a.k = "num" THEN Num(Abs(a.v)) ELSE a

\* A step of Raise: one more event of some type is counted on FusePath.
Raised == saved.ran /\ evRank' # evRank

\* C6: with evCount > 0 and the priorities fixed, fuseRank gives 0 for an
\* element without recorded counts, and raising the count of one event
\* type on an element strictly raises the magnitude of its fused value.
C6_FuseMonotone ==
  /\ [](saved.ran =>
          \A p \in DOMAIN evRank : ZeroCounts(evRank[p]) => saved.newRank[p] = Num(0))
  /\ [][Raised => GtN(Magnitude(saved.newRank'[FusePath]), Magnitude(saved.newRank[FusePath]))]_vars

\* C6 on the counts whose types all have a priority: the same two
\* properties, for the steps that leave no "undefined" key on the element.
C6_FuseMonotoneOnPriorities ==
  /\ [](saved.ran =>
          \A p \in DOMAIN evRank : ZeroCounts(evRank[p]) => saved.newRank[p] = Num(0))
  /\ [][(Raised /\ DOMAIN evRank'[FusePath] \subseteq DOMAIN priorities)
          => GtN(Magnitude(saved.newRank'[FusePath]), Magnitude(saved.newRank[FusePath]))]_vars

\* C7: when saveRank has run with no event recorded and the store has taken
\* the write, the fused rank is empty and the store holds the empty rank.
C7_EmptySessionClears ==
  (saved.ran /\ evCount = 0 /\ ~saved.refused) =>
    /\ saved.newRank = << >>
    /\ ~thrown
    /\ localStorage = Stored(<< >>)

\* C7 witness: a session without events has unloaded over a store that held
\* entries of an earlier session.
C7_Witness ==
  /\ saved.ran
  /\ evCount = 0
  /\ ~saved.refused
  /\ prevRank.k = "object"
  /\ prevRank.m # << >>
  /\ localStorage = Stored(<< >>)

\* The restyle calls adapt has made on property cssProp of node n.
RestyleCalls(n, cssProp) ==
  {i \in DOMAIN restyled : restyled[i].node = n /\ restyled[i].property = cssProp}

\* C8: while the page is tracking, every restyle call adapt has made was
\* for an element whose path is a key of the stored rank, with the value
\* stored for that path as its weight; and a property that differs from the
\* style sheet belongs to such an element and was restyled by adapt.
C8_RestyleOnlyStoredPaths ==
  phase = "tracking" =>
    /\ \A i \in DOMAIN restyled :
         /\ localStorage.present
         /\ getXPath(restyled[i].node) \in DOMAIN localStorage.text
         /\ restyled[i].weight = localStorage.text[getXPath(restyled[i].node)]
    /\ \A n \in Elements : \A cssProp \in Properties :
         style[n][cssProp] # StyleSheet[n][cssProp] =>
           /\ localStorage.present
           /\ getXPath(n) \in DOMAIN localStorage.text
           /\ RestyleCalls(n, cssProp) # {}

\* C8 witness: adapt has restyled an element whose path is stored and has
\* left alone a configured element whose path is not.
C8_Witness ==
  /\ phase = "tracking"
  /\ localStorage.present
  /\ \E i \in DOMAIN restyled :
       style[restyled[i].node][restyled[i].property]
         # StyleSheet[restyled[i].node][restyled[i].property]
  /\ \E n \in Elements :
       /\ \E t \in DefaultTypes : << n, t, "mouseHandler" >> \in listeners
       /\ getXPath(n) \notin DOMAIN localStorage.text
       /\ style[n] = StyleSheet[n]

\* C9: when the store has refused the write of saveRank, no exception has
\* left the unload handler and the store is as adapt found it.
C9_RefusedWriteIsNoOp ==
  saved.refused => (~thrown /\ localStorage = StoreAtAdapt)

\* rgb(r,g,b), #RGB or #RRGGBB: the shapes parseColor is written for.
ExpectedColour(value) ==
  \/ /\ Len(value) \in {4, 7}
     /\ value[1] = "#"
     /\ \A i \in 2..Len(value) : value[i] \in HexChars
  \/ /\ Len(value) > 5
     /\ SubSeq(value, 1, 4) = <<"r", "g", "b", "(">>
     /\ value[Len(value)] = ")"
     /\ LET parts == split(SubSeq(value, 5, Len(value) - 1), <<",">>)
        IN  /\ Len(parts) = 3
            /\ \A j \in 1..3 : parseIntRadix(parts[j], 10).k = "num"

\* A colour that is in none of the expected shapes, or a value with a digit
\* in it that does not start with a number.
Malformed(cssProp, value) ==
  IF TestColor(cssProp) THEN ~ExpectedColour(value)
  ELSE TestDigit(value) /\ parseFloat(value).k # "num"

\* C10: a property whose value is malformed has, after the restyle call of
\* adapt, the value it had before.
C10_MalformedUnchanged ==
  \A i \in DOMAIN restyled :
    LET n == restyled[i].node
        cssProp == restyled[i].property
    IN  Malformed(cssProp, StyleSheet[n][cssProp]) => style[n][cssProp] = StyleSheet[n][cssProp]

\* a >= b for two finite numbers.
GeqN(a, b) == a.k = "num" /\ b.k = "num" /\ a.v >= b.v

\* C11: a colour of integer channels in 0..255 restyled with weight 0 has
\* the brightness it had, and restyled with weight 1 has no channel below
\* the channel it had.
C11_BrightnessKept ==
  \A i \in DOMAIN restyled :
    restyled[i].property = "color" =>
      LET before == parseColor(page.sheet[restyled[i].node]["color"])
          after == parseColor(style[restyled[i].node]["color"])
      IN  /\ restyled[i].weight = FromInt(0) => rgbBrightness(after) = rgbBrightness(before)
          /\ restyled[i].weight = FromInt(1) => \A j \in 1..3 : GeqN(after[j], before[j])

\* The dimension of the model that is written text.
DimensionOf(text) == CHOOSE d \in Dimensions : d.text = text

\* The magnitude the contract gives for magnitude m and weight w.
AdaptedMagnitude(m, w) ==
  IF m.v > 0 THEN MulN(m, AddN(FromInt(1), w)) ELSE AddN(FromInt(1), w)

\* C12: a dimension of magnitude m and unit u restyled with weight w reads
\* m * (1 + w), or 1 + w when m is 0, followed by u.
C12_MagnitudeThenUnit ==
  \A i \in DOMAIN restyled :
    restyled[i].property = "width" =>
      LET d == DimensionOf(page.sheet[restyled[i].node]["width"])
      IN  style[restyled[i].node]["width"]
            = numberToString(AdaptedMagnitude(d.magnitude, restyled[i].weight), 10) \o d.unit

\* The numeral of dimension d is the string its magnitude is written as.
WrittenInFull(d) == d.text = numberToString(d.magnitude, 10) \o d.unit

\* C12 on the dimensions whose numeral is the one the number is written as
\* (no trailing zero in the fraction): the same property.
C12_MagnitudeThenUnitWrittenInFull ==
  \A i \in DOMAIN restyled :
    restyled[i].property = "width" =>
      LET d == DimensionOf(page.sheet[restyled[i].node]["width"])
      IN  WrittenInFull(d) =>
            style[restyled[i].node]["width"]
              = numberToString(AdaptedMagnitude(d.magnitude, restyled[i].weight), 10) \o d.unit

\* The nearest node with an id from node up, 0 when there is none.
RECURSIVE AnchorOf(_, _)
AnchorOf(dom, node) ==
  IF node \notin DOMAIN dom THEN 0
  ELSE IF dom[node].nodeType = ElementNode /\ dom[node].hasId THEN node
  ELSE AnchorOf(dom, dom[node].parentNode)

\* What a node is among its siblings: its type, its tag, and the places of
\* the siblings of its type and tag among which it is the one marked.
PlaceOf(dom, node) ==
  LET like == SelectSeq([i \in 1..Len(dom) |-> i],
                        LAMBDA c : /\ dom[c].parentNode = dom[node].parentNode
                                   /\ dom[c].nodeType = dom[node].nodeType
                                   /\ dom[c].tagName = dom[node].tagName)
  IN  [nodeType |-> dom[node].nodeType, tagName |-> dom[node].tagName,
       siblings |-> [i \in 1..Len(like) |-> like[i] = node]]

\* The chain from the anchor of node down to node: the id of the anchor,
\* then the place of each node below it.
RECURSIVE ChainOf(_, _)
ChainOf(dom, node) ==
  IF node = AnchorOf(dom, node) THEN << [id |-> dom[node].id] >>
  ELSE ChainOf(dom, dom[node].parentNode) \o << PlaceOf(dom, node) >>

\* C13: two calls of getXPath on the same node of the same document give
\* the same path, and two calls on nodes with an anchor whose chains from
\* the anchor down agree give the same path, whatever the documents are
\* above the anchor.
C13_PathAnchored ==
  \A i \in DOMAIN history : \A j \in DOMAIN history :
    /\ (history[i].document = history[j].document /\ history[i].node = history[j].node)
         => history[i].path = history[j].path
    /\ (/\ AnchorOf(history[i].document.dom, history[i].node) # 0
        /\ AnchorOf(history[j].document.dom, history[j].node) # 0
        /\ ChainOf(history[i].document.dom, history[i].node)
             = ChainOf(history[j].document.dom, history[j].node))
         => history[i].path = history[j].path

\* C13 witness: getXPath has been called on a link below the menu in two
\* documents that differ above the menu, and again in the first.
C13_Witness ==
  /\ Len(history) = 3
  /\ history[1].node # history[1].document.menu
  /\ history[1].document.menu # history[2].document.menu
  /\ history[1].document.dom[2] # history[2].document.dom[2]
  /\ ChainOf(history[1].document.dom, history[1].node)
       = ChainOf(history[2].document.dom, history[2].node)

\* C14: every event type counted in evRank has a priority above 0 in
\* events.config.priorities, and every value saveRank has fused is a
\* finite number.
C14_CountedTypesHavePriority ==
  /\ \A p \in DOMAIN evRank : \A t \in DOMAIN evRank[p] :
       t \in DOMAIN priorities /\ priorities[t] > 0
  /\ saved.ran => \A p \in DOMAIN saved.newRank : saved.newRank[p].k = "num"

====
